---- MODULE Spec2Model ----
(***************************************************************************)
(* Real-time stream processing and alerting engine of the AI engine:       *)
(* RealtimeProcessorService (services/realtime_processor.py).              *)
(*                                                                         *)
(* Time is counted in minutes.  The rule table keeps the source's values   *)
(* (window_minutes, cooldown_minutes, thresholds); the clock advances in   *)
(* steps of TickStep minutes up to MaxTime.  Ratios are kept as pairs      *)
(* <<numerator, denominator>> and compared by cross-multiplication.        *)
(***************************************************************************)
EXTENDS Integers, Sequences, FiniteSets, TLC

VARIABLES
    now,               \* datetime.utcnow(), in minutes
    active_streams,    \* self.active_streams: site_id -> StreamingWindow
    dk_entries,        \* insertion-ordered entry table of the active_streams dict
    processing_queue,  \* self.processing_queue (asyncio.Queue)
    alert_cooldowns,   \* self.alert_cooldowns: <<site_id, rule_name>> -> datetime
    redis_thresholds,  \* redis keys custom_thresholds:{site_id}
    connections,       \* WebSocketManager.connections: site_id -> list of websockets
    stats,             \* WebSocketManager.stats: total_connections and active_sites
    prediction,        \* the _prediction_processor task: asleep, or suspended in send_text
    is_running,        \* self.is_running
    worker_tasks,      \* self.worker_tasks: worker -> "running" or "done"
    cleanup_pc,        \* cleanup(): not called, cancelling the tasks, or finished
    alerts,            \* history: <<site_id, rule_name>> -> triggered_at of the AlertData built
    last               \* history: the operation that produced the current state, and its result

vars == <<now, active_streams, dk_entries, processing_queue, alert_cooldowns,
          redis_thresholds, connections, stats, prediction, is_running, worker_tasks,
          cleanup_pc, alerts, last>>

\* the life cycle of the service and of its worker tasks
lifeVars == <<is_running, worker_tasks, cleanup_pc>>

\* the state of the publication sink and of the workers
workerVars == <<connections, stats, prediction, lifeVars>>

----------------------------------------------------------------------------
(* Bounds of the model *)

\* the clock stops here (minutes)
MaxTime == 10
\* minutes per clock step
TickStep == 5
\* the clock of the stale-snapshot specification stops here (minutes)
StaleTime == 20
\* minutes without events after which a window counts as idle
IdleTimeout == 5
\* the queue length up to which the dispatcher specification ingests
DispatchQueueBound == 3
\* stands for deque(maxlen=1000) / window_size=1000
maxlen == 2
\* stands for settings.realtime_batch_size (100)
realtime_batch_size == 2
\* longest event_data list handed to process_realtime_data
MaxBatchLen == 2
\* the model stops ingesting when the (unbounded) queue holds this many events
QueueBound == 2

\* asyncio.Queue() is built without maxsize: maxsize = 0, "infinite"
maxsize == 0

Tenants == {"A", "B"}

\* self.worker_tasks, in the order _start_workers creates them
WorkerOrder == <<"main", "alert", "prediction", "metrics">>
Workers == {"main", "alert", "prediction", "metrics"}

None == "None"
Dummy == "<dummy>"

\* Python dicts: d[k] = v, del d[k], {}
DictSet(d, k, v) == [x \in DOMAIN d \cup {k} |-> IF x = k THEN v ELSE d[x]]
DictDel(d, k) == [x \in DOMAIN d \ {k} |-> d[x]]
EmptyDict == [x \in {} |-> x]

----------------------------------------------------------------------------
(* Generic helpers *)

Max(a, b) == IF a >= b THEN a ELSE b
Min(a, b) == IF a <= b THEN a ELSE b

\* the elements of a sequence
Range(s) == {s[i] : i \in DOMAIN s}

\* len([e for e in s if P(e)])
Count(s, P(_)) == Cardinality({i \in DOMAIN s : P(s[i])})

\* the last n elements of s (all of s when it is shorter)
LastN(s, n) == IF Len(s) <= n THEN s ELSE SubSeq(s, Len(s) - n + 1, Len(s))

\* a/b > c/d and a/b < c/d for ratios <<a, b>>, <<c, d>> with positive denominators
Gt(x, y) == x[1] * y[2] > y[1] * x[2]
Lt(x, y) == x[1] * y[2] < y[1] * x[2]
Times(x, y) == <<x[1] * y[1], x[2] * y[2]>>

----------------------------------------------------------------------------
(* Events *)

\* the event dicts a client may submit: "iso" is a parsable ISO timestamp,
\* "missing" is no 'timestamp' key, "bad" a string fromisoformat rejects, and
\* "aware" an ISO timestamp with a UTC offset (parsed to an aware datetime)
RawEvents ==
    { [type |-> "page_view", timestamp |-> "iso",     session_id |-> "s1"],
      [type |-> "error",     timestamp |-> "missing", session_id |-> None],
      [type |-> "page_view", timestamp |-> "bad",     session_id |-> None] }

EventBatches == UNION {[1..n -> RawEvents] : n \in 1..MaxBatchLen}

\* datetime.fromisoformat raises ValueError on this event's timestamp
Unparsable(raw) == raw.timestamp = "bad"

\* RealtimeEvent(site_id, type, fromisoformat(timestamp or utcnow().isoformat()), ...)
RealtimeEvent(site_id, raw) ==
    [site_id |-> site_id, event_type |-> raw.type, timestamp |-> now,
     aware |-> raw.timestamp = "aware", session_id |-> raw.session_id]

----------------------------------------------------------------------------
(* Stream windows *)

\* defaultdict(float): every metric reads 0 until it is written
EmptyMetrics ==
    [events_per_minute |-> 0, page_views_per_minute |-> 0, unique_sessions |-> 0,
     bounce_rate |-> <<0, 1>>, conversion_rate |-> <<0, 1>>, error_rate |-> <<0, 1>>]

\* an alert_types value that is no list: None as the value of a message without
\* alert_types, and the subscribed_alerts attribute a new window does not have
NoTypes == [list |-> FALSE, items |-> {}]

StreamingWindow ==
    [events |-> <<>>, metrics |-> EmptyMetrics, last_update |-> now,
     subscribed_alerts |-> NoTypes]

\* site_id in self.active_streams
Active(site_id) == site_id \in DOMAIN active_streams

\* the keys of active_streams, in the dict's iteration order
Keys == SelectSeq(dk_entries, LAMBDA k : k # Dummy)

\* the entries a dict of up to five keys holds before its table is rebuilt
\* (CPython: USABLE_FRACTION of the minimal table of 8 slots)
dk_usable == 5

\* dict insertion of a new key: appended to the entry table; a full table is
\* rebuilt first, without the entries of deleted keys
DictInsert(entries, k) ==
    IF Len(entries) >= dk_usable
    THEN Append(SelectSeq(entries, LAMBDA x : x # Dummy), k)
    ELSE Append(entries, k)

\* del d[k]: the entry stays in the table as a dummy
DictDelete(entries, k) == [i \in DOMAIN entries |-> IF entries[i] = k THEN Dummy ELSE entries[i]]

\* deque.append with maxlen: the oldest element is discarded when full
DequeAppendBug(events, e) == Append(events, e)
\* variant: a full buffer discards the new element and keeps the old ones
DequeAppendDropNewest(events, e) == IF Len(events) >= maxlen THEN events ELSE Append(events, e)
DequeAppend(events, e) == LastN(Append(events, e), maxlen)

RECURSIVE DequeExtend(_, _)
DequeExtend(events, es) ==
    IF es = <<>> THEN events
    ELSE DequeExtend(DequeAppend(events, Head(es)), Tail(es))

\* e.timestamp > <naive datetime> raises TypeError for an aware timestamp
CompareRaises(events) == \E i \in DOMAIN events : events[i].aware

\* variant: conversions per session instead of per event
UpdateStreamMetricsPerSession(stream, current_time) ==
    LET recent_events == SelectSeq(stream.events,
                                   LAMBDA e : e.timestamp > current_time - 1)
        sessions == {e.session_id : e \in {x \in Range(recent_events) : x.session_id # None}}
        conversions == Count(recent_events, LAMBDA e : e.event_type \in {"purchase", "signup", "conversion"})
    IN  IF CompareRaises(stream.events) THEN stream.metrics ELSE
        [stream.metrics EXCEPT
            !.events_per_minute = Len(recent_events),
            !.conversion_rate = <<conversions, Max(Cardinality(sessions), 1)>>]

\* _update_stream_metrics: the snapshot recomputed from the events of the last
\* minute; the TypeError of the first comparison is caught before any metric
\* is written
UpdateStreamMetrics(stream, current_time) ==
    LET recent_events == SelectSeq(stream.events,
                                   LAMBDA e : e.timestamp > current_time - 1)
        sessions == {e.session_id : e \in {x \in Range(recent_events) : x.session_id # None}}
        total_sessions == Cardinality(sessions)
        bounced_sessions ==
            Cardinality({s \in sessions :
                            Count(recent_events, LAMBDA e : e.session_id = s) = 1})
        conversions == Count(recent_events, LAMBDA e : e.event_type \in {"purchase", "signup", "conversion"})
        errors == Count(recent_events, LAMBDA e : e.event_type = "error")
    IN  IF CompareRaises(stream.events) THEN stream.metrics ELSE
        [events_per_minute |-> Len(recent_events),
         page_views_per_minute |-> Count(recent_events, LAMBDA e : e.event_type = "page_view"),
         unique_sessions |-> total_sessions,
         bounce_rate |-> IF total_sessions > 0
                         THEN <<bounced_sessions, total_sessions>>
                         ELSE stream.metrics.bounce_rate,
         conversion_rate |-> <<conversions, Max(Len(recent_events), 1)>>,
         error_rate |-> <<errors, Max(Len(recent_events), 1)>>]

----------------------------------------------------------------------------
(* Session control *)

\* start_realtime_analysis assigning a new window whether or not the tenant has one
StartRealtimeAnalysisResetting(site_id) ==
    /\ active_streams' = DictSet(active_streams, site_id, StreamingWindow)
    /\ dk_entries' = IF Active(site_id) THEN dk_entries ELSE DictInsert(dk_entries, site_id)
    /\ last' = [op |-> "session"]
    /\ UNCHANGED <<now, processing_queue, alert_cooldowns, redis_thresholds, alerts, workerVars>>

\* start_realtime_analysis(site_id, websocket_manager): a window is created
\* only for a tenant that has none
StartRealtimeAnalysis(site_id) ==
    /\ IF ~Active(site_id)
       THEN /\ active_streams' = DictSet(active_streams, site_id, StreamingWindow)
            /\ dk_entries' = DictInsert(dk_entries, site_id)
       ELSE UNCHANGED <<active_streams, dk_entries>>
    /\ last' = [op |-> "session"]
    /\ UNCHANGED <<now, processing_queue, alert_cooldowns, redis_thresholds, alerts, workerVars>>

\* stop_realtime_analysis without the membership test: del raises KeyError for
\* a tenant without window, which the except logs as an error
StopRealtimeAnalysisUnguarded(site_id) ==
    /\ IF Active(site_id)
       THEN /\ active_streams' = DictDel(active_streams, site_id)
            /\ dk_entries' = DictDelete(dk_entries, site_id)
       ELSE UNCHANGED <<active_streams, dk_entries>>
    /\ last' = [op |-> "stop", site_id |-> site_id, error |-> ~Active(site_id)]
    /\ UNCHANGED <<now, processing_queue, alert_cooldowns, redis_thresholds, alerts, workerVars>>

\* stop_realtime_analysis that also forgets the cooldowns of the tenant
StopRealtimeAnalysisForgetting(site_id) ==
    /\ IF Active(site_id)
       THEN /\ active_streams' = DictDel(active_streams, site_id)
            /\ dk_entries' = DictDelete(dk_entries, site_id)
       ELSE UNCHANGED <<active_streams, dk_entries>>
    /\ alert_cooldowns' = [k \in {x \in DOMAIN alert_cooldowns : x[1] # site_id} |->
                             alert_cooldowns[k]]
    /\ last' = [op |-> "stop", site_id |-> site_id, error |-> FALSE]
    /\ UNCHANGED <<now, processing_queue, redis_thresholds, alerts, workerVars>>

\* stop_realtime_analysis(site_id): the window is deleted if there is one; the
\* except branch, which would log an error, is not reached
StopRealtimeAnalysis(site_id) ==
    /\ IF Active(site_id)
       THEN /\ active_streams' = DictDel(active_streams, site_id)
            /\ dk_entries' = DictDelete(dk_entries, site_id)
       ELSE UNCHANGED <<active_streams, dk_entries>>
    /\ last' = [op |-> "stop", site_id |-> site_id, error |-> FALSE]
    /\ UNCHANGED <<now, processing_queue, alert_cooldowns, redis_thresholds, alerts, workerVars>>

----------------------------------------------------------------------------
(* Queries and subscriptions *)

\* _get_current_metrics returning the metrics of a new window for a tenant
\* that has none
GetCurrentMetricsOfNewWindow(site_id) ==
    IF Active(site_id) THEN active_streams[site_id].metrics ELSE EmptyMetrics

\* _get_current_metrics(site_id)
GetCurrentMetrics(site_id) ==
    IF Active(site_id) THEN active_streams[site_id].metrics ELSE EmptyDict

\* _analyze_short_term_trends(site_id): the same dict for every tenant
AnalyzeShortTermTrends ==
    [traffic |-> "stable", engagement |-> "increasing", conversion |-> "stable"]

\* _get_active_alerts(site_id): lrange of the synchronous redis client returns a
\* list, awaiting it raises TypeError, and the bare except returns []
GetActiveAlerts(site_id) == <<>>

\* quick_analysis(site_id, data)
QuickAnalysis(site_id) ==
    /\ last' = [op |-> "quick", site_id |-> site_id,
                result |-> [current_metrics |-> GetCurrentMetrics(site_id),
                            trends |-> AnalyzeShortTermTrends,
                            active_alerts |-> GetActiveAlerts(site_id)]]
    /\ UNCHANGED <<now, active_streams, dk_entries, processing_queue, alert_cooldowns,
                   redis_thresholds, alerts, workerVars>>

\* message.get("alert_types") of a subscribe_alerts message
AlertTypes ==
    {NoTypes, [list |-> TRUE, items |-> {}], [list |-> TRUE, items |-> {"traffic_spike"}]}

\* subscribe_alerts(site_id, alert_types): set(None) raises TypeError, which the
\* except logs
SubscribeAlerts(site_id, alert_types) ==
    /\ active_streams' =
          IF Active(site_id) /\ alert_types.list
          THEN [active_streams EXCEPT ![site_id].subscribed_alerts = alert_types]
          ELSE active_streams
    /\ last' = [op |-> "subscribe", site_id |-> site_id,
                error |-> Active(site_id) /\ ~alert_types.list]
    /\ UNCHANGED <<now, dk_entries, processing_queue, alert_cooldowns, redis_thresholds,
                   alerts, workerVars>>

----------------------------------------------------------------------------
(* Ingest *)

\* an instant snapshot that counts the events of the tenant's window as well
CalculateInstantMetricsOfWindow(site_id, events) ==
    LET all == IF Active(site_id) THEN active_streams[site_id].events \o events ELSE events
    IN  [events_processed |-> Len(all),
         unique_sessions |-> Cardinality({all[i].session_id : i \in DOMAIN all} \ {None}),
         page_views |-> Count(all, LAMBDA e : e.event_type = "page_view"),
         conversions |-> Count(all, LAMBDA e : e.event_type \in {"purchase", "signup"})]

\* _calculate_instant_metrics(site_id, events): the counts of the dict it returns
CalculateInstantMetrics(site_id, events) ==
    [events_processed |-> Len(events),
     unique_sessions |-> Cardinality({events[i].session_id : i \in DOMAIN events} \ {None}),
     page_views |-> Count(events, LAMBDA e : e.event_type = "page_view"),
     conversions |-> Count(events, LAMBDA e : e.event_type \in {"purchase", "signup"})]

\* process_realtime_data(site_id, event_data): every event is parsed first; one
\* ValueError leaves the try block before anything is put on the queue
ProcessRealtimeDataUpTo(site_id, event_data, bound) ==
    LET failed == \E i \in DOMAIN event_data : Unparsable(event_data[i])
        processed_events == [i \in DOMAIN event_data |-> RealtimeEvent(site_id, event_data[i])]
    IN  /\ Len(processing_queue) + Len(event_data) <= bound
        /\ processing_queue' = IF failed THEN processing_queue
                               ELSE processing_queue \o processed_events
        /\ last' = [op |-> "ingest",
                    result |-> IF failed THEN "error" ELSE "ok",
                    instant_metrics |-> IF failed THEN None
                                        ELSE CalculateInstantMetrics(site_id, processed_events),
                    wellformed |-> Count(event_data, LAMBDA r : r.timestamp \in {"iso", "aware"}),
                    malformed |-> Count(event_data, LAMBDA r : r.timestamp \in {"missing", "bad"}),
                    enqueued |-> Len(processing_queue') - Len(processing_queue)]
        /\ UNCHANGED <<now, active_streams, dk_entries, alert_cooldowns, redis_thresholds,
                       alerts, workerVars>>

\* process_realtime_data(site_id, event_data), while the queue is short enough
\* for the model
ProcessRealtimeData(site_id, event_data) ==
    ProcessRealtimeDataUpTo(site_id, event_data, QueueBound)

----------------------------------------------------------------------------
(* Batch dispatcher *)

\* the body of the loop of _process_events_batch for one site with a window
ProcessSite(stream, site_events) ==
    LET appended == [stream EXCEPT !.events = DequeExtend(stream.events, site_events)]
    IN  [appended EXCEPT !.metrics = UpdateStreamMetrics(appended, now),
                         !.last_update = now]

\* _process_events_batch: sites without a window are skipped
ProcessEventsBatchCreating(streams, events_batch) ==
    [s \in DOMAIN streams \cup {e.site_id : e \in Range(events_batch)} |->
        LET site_events == SelectSeq(events_batch, LAMBDA e : e.site_id = s)
        IN  IF s \notin DOMAIN streams THEN ProcessSite(StreamingWindow, site_events)
            ELSE IF site_events # <<>>
            THEN ProcessSite(streams[s], site_events)
            ELSE streams[s]]

\* variant: the exception of one site's metrics update leaves the loop over the
\* sites, which runs in the order of their first event in the batch
ProcessEventsBatchAborting(streams, events_batch) ==
    [s \in DOMAIN streams |->
        LET of(x) == SelectSeq(events_batch, LAMBDA e : e.site_id = x)
            first(x) == CHOOSE i \in DOMAIN events_batch :
                           /\ events_batch[i].site_id = x
                           /\ \A j \in 1..(i - 1) : events_batch[j].site_id # x
            aborted == \E x \in DOMAIN streams \ {s} :
                          /\ of(x) # <<>>
                          /\ first(x) < first(s)
                          /\ CompareRaises(ProcessSite(streams[x], of(x)).events)
        IN  IF of(s) # <<>> /\ ~aborted
            THEN ProcessSite(streams[s], of(s))
            ELSE streams[s]]

\* variant: every window gets every event of the batch
ProcessEventsBatchBroadcast(streams, events_batch) ==
    [s \in DOMAIN streams |-> ProcessSite(streams[s], events_batch)]

ProcessEventsBatch(streams, events_batch) ==
    [s \in DOMAIN streams |->
        LET site_events == SelectSeq(events_batch, LAMBDA e : e.site_id = s)
        IN  IF site_events # <<>>
            THEN ProcessSite(streams[s], site_events)
            ELSE streams[s]]

\* variant: the cycle drains the whole queue
MainProcessorWholeQueue ==
    /\ worker_tasks["main"] = "running"
    /\ processing_queue # <<>>
    /\ processing_queue' = <<>>
    /\ active_streams' = ProcessEventsBatch(active_streams, processing_queue)
    /\ last' = [op |-> "dispatch", dropped |-> {}, evicted |-> {}, stopped |-> {},
                updated |-> {}, raised |-> {}]
    /\ worker_tasks' = [worker_tasks EXCEPT !["main"] = IF is_running THEN "running" ELSE "done"]
    /\ UNCHANGED <<now, dk_entries, alert_cooldowns, redis_thresholds, alerts, connections, stats,
                   prediction, is_running, cleanup_pc>>

\* one cycle of _main_processor whose wait for the first event timed out:
\* continue, back to the head of the loop
MainProcessorTimeout ==
    /\ is_running
    /\ worker_tasks["main"] = "running"
    /\ processing_queue = <<>>
    /\ last' = [op |-> "timeout"]
    /\ UNCHANGED <<now, active_streams, dk_entries, processing_queue, alert_cooldowns,
                   redis_thresholds, alerts, workerVars>>

\* one cycle of _main_processor that found an event: the first event, then up to
\* realtime_batch_size - 1 more with get_nowait
MainProcessor ==
    /\ worker_tasks["main"] = "running"
    /\ processing_queue # <<>>
    /\ LET n == Min(Len(processing_queue), realtime_batch_size)
           events_batch == SubSeq(processing_queue, 1, n)
       IN  /\ processing_queue' = SubSeq(processing_queue, n + 1, Len(processing_queue))
           /\ active_streams' = ProcessEventsBatch(active_streams, events_batch)
           /\ last' = [op |-> "dispatch",
                       dropped |-> {e.site_id : e \in {x \in Range(events_batch) : ~Active(x.site_id)}},
                       evicted |-> {x \in DOMAIN active_streams :
                                      Len(active_streams[x].events)
                                        + Count(events_batch, LAMBDA e : e.site_id = x) > maxlen},
                       stopped |-> IF last.op = "stop" THEN {last.site_id} ELSE {},
                       updated |-> {x \in DOMAIN active_streams :
                                      \E e \in Range(events_batch) : e.site_id = x},
                       raised |-> {x \in DOMAIN active_streams :
                                     /\ \E e \in Range(events_batch) : e.site_id = x
                                     /\ CompareRaises(active_streams'[x].events)}]
    /\ worker_tasks' = [worker_tasks EXCEPT !["main"] = IF is_running THEN "running" ELSE "done"]
    /\ UNCHANGED <<now, dk_entries, alert_cooldowns, redis_thresholds, alerts, connections, stats,
                   prediction, is_running, cleanup_pc>>

----------------------------------------------------------------------------
(* Alert rule engine *)

\* self.alert_rules, in the order _setup_alert_rules inserts them
RuleOrder ==
    <<"traffic_spike", "traffic_drop", "high_bounce_rate", "conversion_drop",
      "server_error_spike", "unusual_user_behavior">>

RuleNames == Range(RuleOrder)

alert_rules(r) ==
        CASE r = "traffic_spike" ->
               [metric |-> "page_views_per_minute", kind |-> "threshold_multiplier",
                value |-> <<3, 1>>, window_minutes |-> 5, cooldown_minutes |-> 30]
          [] r = "traffic_drop" ->
               [metric |-> "page_views_per_minute", kind |-> "threshold_multiplier",
                value |-> <<3, 10>>, window_minutes |-> 10, cooldown_minutes |-> 15]
          [] r = "high_bounce_rate" ->
               [metric |-> "bounce_rate", kind |-> "threshold",
                value |-> <<4, 5>>, window_minutes |-> 15, cooldown_minutes |-> 30]
          [] r = "conversion_drop" ->
               [metric |-> "conversion_rate", kind |-> "threshold_multiplier",
                value |-> <<1, 2>>, window_minutes |-> 30, cooldown_minutes |-> 60]
          [] r = "server_error_spike" ->
               [metric |-> "error_rate", kind |-> "threshold",
                value |-> <<1, 20>>, window_minutes |-> 5, cooldown_minutes |-> 10]
          [] r = "unusual_user_behavior" ->
               [metric |-> "unusual_sessions_rate", kind |-> "threshold",
                value |-> <<1, 10>>, window_minutes |-> 20, cooldown_minutes |-> 45]

\* variant: a metric missing from the snapshot reads as 1
MetricGetDefaultOne(stream, metric_name) ==
    CASE metric_name = "page_views_per_minute" -> <<stream.metrics.page_views_per_minute, 1>>
      [] metric_name = "bounce_rate" -> stream.metrics.bounce_rate
      [] metric_name = "conversion_rate" -> stream.metrics.conversion_rate
      [] metric_name = "error_rate" -> stream.metrics.error_rate
      [] OTHER -> <<1, 1>>

\* stream.metrics.get(metric_name, 0), as a ratio
MetricGet(stream, metric_name) ==
    CASE metric_name = "page_views_per_minute" -> <<stream.metrics.page_views_per_minute, 1>>
      [] metric_name = "bounce_rate" -> stream.metrics.bounce_rate
      [] metric_name = "conversion_rate" -> stream.metrics.conversion_rate
      [] metric_name = "error_rate" -> stream.metrics.error_rate
      [] OTHER -> <<0, 1>>

\* variant: the conversion rate is averaged over the events of the window
GetHistoricalAverageOverWindow(stream, metric, window_minutes, current_time) ==
    LET relevant_events == SelectSeq(stream.events,
                                     LAMBDA e : e.timestamp > current_time - window_minutes)
    IN  IF CompareRaises(stream.events) THEN <<0, 1>>
        ELSE IF relevant_events = <<>> THEN <<0, 1>>
        ELSE IF metric = "page_views_per_minute"
        THEN <<Count(relevant_events, LAMBDA e : e.event_type = "page_view"), window_minutes>>
        ELSE IF metric = "error_rate"
        THEN <<Count(relevant_events, LAMBDA e : e.event_type = "error"),
               Max(Len(relevant_events), 1)>>
        ELSE <<Count(relevant_events,
                     LAMBDA e : e.event_type \in {"purchase", "signup", "conversion"}),
               Len(relevant_events)>>

\* _get_historical_average(stream, metric, window_minutes)
GetHistoricalAverage(stream, metric, window_minutes, current_time) ==
    LET relevant_events == SelectSeq(stream.events,
                                     LAMBDA e : e.timestamp > current_time - window_minutes)
    IN  IF CompareRaises(stream.events) THEN <<0, 1>>
        ELSE IF relevant_events = <<>> THEN <<0, 1>>
        ELSE IF metric = "page_views_per_minute"
        THEN <<Count(relevant_events, LAMBDA e : e.event_type = "page_view"), window_minutes>>
        ELSE IF metric = "error_rate"
        THEN <<Count(relevant_events, LAMBDA e : e.event_type = "error"),
               Max(Len(relevant_events), 1)>>
        ELSE MetricGet(stream, metric)

\* _check_alert_condition(stream, rule)
CheckAlertConditionSwapped(stream, rule, current_time) ==
    LET current_value == MetricGet(stream, rule.metric)
        historical_avg == GetHistoricalAverage(stream, rule.metric, rule.window_minutes,
                                               current_time)
    IN  IF rule.kind = "threshold" THEN Gt(current_value, rule.value)
        ELSE /\ historical_avg[1] > 0
             /\ IF Gt(rule.value, <<1, 1>>)
                THEN Lt(current_value, Times(historical_avg, rule.value))
                ELSE Gt(current_value, Times(historical_avg, rule.value))

\* variant: a value equal to the threshold fires
CheckAlertConditionInclusive(stream, rule, current_time) ==
    LET current_value == MetricGet(stream, rule.metric)
        historical_avg == GetHistoricalAverage(stream, rule.metric, rule.window_minutes,
                                               current_time)
    IN  IF rule.kind = "threshold" THEN ~Lt(current_value, rule.value)
        ELSE /\ historical_avg[1] > 0
             /\ IF Gt(rule.value, <<1, 1>>)
                THEN Gt(current_value, Times(historical_avg, rule.value))
                ELSE Lt(current_value, Times(historical_avg, rule.value))

CheckAlertCondition(stream, rule, current_time) ==
    LET current_value == MetricGet(stream, rule.metric)
        historical_avg == GetHistoricalAverage(stream, rule.metric, rule.window_minutes,
                                               current_time)
    IN  IF rule.kind = "threshold" THEN Gt(current_value, rule.value)
        ELSE /\ historical_avg[1] > 0
             /\ IF Gt(rule.value, <<1, 1>>)
                THEN Gt(current_value, Times(historical_avg, rule.value))
                ELSE Lt(current_value, Times(historical_avg, rule.value))

\* variant: AlertData is a dataclass and asdict(alert) returns its dict
AlertDataIsPlainDataclass == TRUE

\* AlertData is a pydantic BaseModel, not a dataclass: dataclasses.asdict(alert)
\* raises TypeError
AlertDataIsDataclass == FALSE

\* _send_alert(site_id, alert, stream): the messages handed to send_to_site.  The
\* argument asdict(alert) is evaluated first; its TypeError is caught and logged
SendAlert(site_id, rule_name) ==
    IF AlertDataIsDataclass
    THEN {[type |-> "alert", site_id |-> site_id, alert_type |-> rule_name]}
    ELSE {}

\* _send_alert without its except: the TypeError of asdict reaches _check_alerts
SendAlertUncaught(site_id, rule_name) == ~AlertDataIsDataclass

\* _send_alert(site_id, alert, stream) raises: never, its except catches every
\* exception of the publication and of the history store and logs it
SendAlertRaises(site_id, rule_name) == FALSE

\* the cooldown check at the head of the rule loop: the rule is skipped
InCooldownNever(cooldowns, cooldown_key, current_time) == FALSE
InCooldownInclusive(cooldowns, cooldown_key, current_time) ==
    /\ cooldown_key \in DOMAIN cooldowns
    /\ current_time <= cooldowns[cooldown_key]
InCooldown(cooldowns, cooldown_key, current_time) ==
    /\ cooldown_key \in DOMAIN cooldowns
    /\ current_time < cooldowns[cooldown_key]

\* the rule loop of _check_alerts(site_id, stream) from rule i on.  st carries
\* alert_cooldowns, the alerts built, the messages sent, the pairs reached, the
\* pairs that fired and the pair whose _create_alert raised; that exception
\* leaves the loop (the except of _check_alerts), as one of _send_alert would
RECURSIVE CheckRules(_, _, _, _, _, _)
CheckRules(site_id, stream, current_time, create_fails, i, st) ==
    IF i > Len(RuleOrder) THEN st
    ELSE
      LET rule_name == RuleOrder[i]
          rule == alert_rules(rule_name)
          cooldown_key == <<site_id, rule_name>>
          reached == [st EXCEPT !.evaluated = @ \cup {cooldown_key}]
      IN  IF InCooldown(st.cooldowns, cooldown_key, current_time)
          THEN CheckRules(site_id, stream, current_time, create_fails, i + 1, reached)
          ELSE IF ~CheckAlertCondition(stream, rule, current_time)
          THEN CheckRules(site_id, stream, current_time, create_fails, i + 1, reached)
          ELSE IF cooldown_key \in create_fails
          THEN [reached EXCEPT !.failed = @ \cup {cooldown_key}]
          ELSE IF SendAlertRaises(site_id, rule_name)
          THEN [reached EXCEPT
                  !.alerts = DictSet(@, cooldown_key,
                               Append(IF cooldown_key \in DOMAIN @ THEN @[cooldown_key]
                                      ELSE <<>>, current_time)),
                  !.fired = @ \cup {cooldown_key}]
          ELSE CheckRules(site_id, stream, current_time, create_fails, i + 1,
                 [reached EXCEPT
                    !.alerts = DictSet(@, cooldown_key,
                                 Append(IF cooldown_key \in DOMAIN @ THEN @[cooldown_key]
                                        ELSE <<>>, current_time)),
                    !.sent = @ \cup SendAlert(site_id, rule_name),
                    !.fired = @ \cup {cooldown_key},
                    !.cooldowns = DictSet(@, cooldown_key,
                                          current_time + rule.cooldown_minutes)])

\* _check_alerts(site_id, stream)
CheckAlerts(site_id, stream, create_fails, st) ==
    CheckRules(site_id, stream, now, create_fails, 1, st)

\* the for loop of _alert_processor over self.active_streams.items()
RECURSIVE AlertLoop(_, _, _)
AlertLoop(keys, create_fails, st) ==
    IF keys = <<>> THEN st
    ELSE AlertLoop(Tail(keys), create_fails,
                   CheckAlerts(Head(keys), active_streams[Head(keys)], create_fails, st))

\* one cycle of _alert_processor; create_fails are the (site, rule) pairs whose
\* _create_alert raises in this cycle
AlertProcessor(create_fails) ==
    /\ is_running
    /\ worker_tasks["alert"] = "running"
    /\ \E st \in {AlertLoop(Keys, create_fails,
                         [cooldowns |-> alert_cooldowns, alerts |-> alerts, sent |-> {},
                          fired |-> {}, evaluated |-> {}, failed |-> {}])} :
        /\ alert_cooldowns' = st.cooldowns
        /\ alerts' = st.alerts
        /\ last' = [op |-> "alert", fired |-> st.fired, evaluated |-> st.evaluated,
                    sent |-> st.sent, failed |-> st.failed]
        /\ UNCHANGED <<now, active_streams, dk_entries, processing_queue, redis_thresholds, workerVars>>

----------------------------------------------------------------------------
(* Threshold overrides *)

\* the thresholds dicts a client may configure
ThresholdConfigs == {[metric |-> "bounce_rate", value |-> <<1, 1>>]}

\* configure_thresholds(site_id, thresholds): redis setex custom_thresholds:{site_id}
\* with a fixed expiry of 86400 s (1440 minutes); nothing reads the key back
ConfigureThresholds(site_id, thresholds) ==
    /\ redis_thresholds' = DictSet(redis_thresholds, site_id,
                                   [thresholds |-> thresholds, expires |-> now + 1440])
    /\ last' = [op |-> "configure"]
    /\ UNCHANGED <<now, active_streams, dk_entries, processing_queue, alert_cooldowns, alerts, workerVars>>

----------------------------------------------------------------------------
(* Clock *)

\* variant: the passage of time recomputes every snapshot from its buffer
TickUpToDecaying(bound) ==
    /\ now + TickStep <= bound
    /\ processing_queue = <<>>
    /\ now' = now + TickStep
    /\ active_streams' = [s \in DOMAIN active_streams |->
                            [active_streams[s] EXCEPT
                                !.metrics = UpdateStreamMetrics(active_streams[s], now')]]
    /\ last' = [op |-> "session"]
    /\ UNCHANGED <<dk_entries, processing_queue, alert_cooldowns,
                   redis_thresholds, alerts, workerVars>>

\* time passes, up to the given instant, while no event waits in the queue:
\* no code runs, only datetime.utcnow() changes
TickUpTo(bound) ==
    /\ now + TickStep <= bound
    /\ processing_queue = <<>>
    /\ now' = now + TickStep
    /\ last' = [op |-> "session"]
    /\ UNCHANGED <<active_streams, dk_entries, processing_queue, alert_cooldowns,
                   redis_thresholds, alerts, workerVars>>

Tick == TickUpTo(MaxTime)

----------------------------------------------------------------------------
(* Publication sink: WebSocketManager *)

\* the websockets a client may open for a site
Sockets == {"w1"}

\* message types handed to send_to_site
Message(type, site_id) == [type |-> type, site_id |-> site_id]

\* self.connections[site_id] without the given websockets; an empty list is
\* deleted from the dict
RemoveConnections(conns, site_id, gone) ==
    IF site_id \notin DOMAIN conns THEN conns
    ELSE LET rest == SelectSeq(conns[site_id], LAMBDA w : w \notin gone)
         IN  IF rest = <<>> THEN DictDel(conns, site_id)
             ELSE DictSet(conns, site_id, rest)

\* the number of registered connections: len(self.connection_map), which
\* connect, disconnect and _remove_failed_connection keep in step with the lists
ConnectionCount(conns) ==
    Cardinality(UNION {{<<s, i>> : i \in DOMAIN conns[s]} : s \in DOMAIN conns})

\* self.stats after n calls of _remove_failed_connection that left conns: each
\* call subtracts 1 from total_connections, whether or not it found the
\* connection, and sets active_sites to len(self.connections)
StatsAfterRemovals(conns, n) ==
    IF n = 0 THEN stats
    ELSE [total_connections |-> Max(0, stats.total_connections - n),
          active_sites |-> Cardinality(DOMAIN conns)]

\* self.stats after disconnect(websocket, site_id): updated only if the
\* websocket was in connection_map
StatsAfterDisconnect(site_id, websocket) ==
    IF site_id \in DOMAIN connections /\ websocket \in Range(connections[site_id])
    THEN [total_connections |-> Max(0, stats.total_connections - 1),
          active_sites |-> Cardinality(DOMAIN RemoveConnections(connections, site_id,
                                                                {websocket}))]
    ELSE stats

\* websocket_manager.connect(websocket, site_id)
Connect(site_id, websocket) ==
    /\ site_id \in DOMAIN connections => websocket \notin Range(connections[site_id])
    /\ connections' = DictSet(connections, site_id,
                              Append(IF site_id \in DOMAIN connections
                                     THEN connections[site_id] ELSE <<>>, websocket))
    /\ stats' = [total_connections |-> stats.total_connections + 1,
                 active_sites |-> Cardinality(DOMAIN connections \cup {site_id})]
    /\ last' = [op |-> "session"]
    /\ UNCHANGED <<now, active_streams, dk_entries, processing_queue, alert_cooldowns,
                   redis_thresholds, alerts, prediction, lifeVars>>

\* websocket_manager.disconnect(websocket, site_id)
Disconnect(site_id, websocket) ==
    /\ site_id \in DOMAIN connections
    /\ websocket \in Range(connections[site_id])
    /\ connections' = RemoveConnections(connections, site_id, {websocket})
    /\ stats' = StatsAfterDisconnect(site_id, websocket)
    /\ last' = [op |-> "session"]
    /\ UNCHANGED <<now, active_streams, dk_entries, processing_queue, alert_cooldowns,
                   redis_thresholds, alerts, prediction, lifeVars>>

\* the websockets of the clients of one site
EndpointSockets == {"w1", "w2"}

\* variant: the endpoint stops the analysis only with the site's last connection
OnWebSocketDisconnectLastOnly(site_id, websocket) ==
    LET conns == RemoveConnections(connections, site_id, {websocket})
    IN  /\ connections' = conns
        /\ stats' = StatsAfterDisconnect(site_id, websocket)
        /\ IF Active(site_id) /\ site_id \notin DOMAIN conns
           THEN /\ active_streams' = DictDel(active_streams, site_id)
                /\ dk_entries' = DictDelete(dk_entries, site_id)
           ELSE UNCHANGED <<active_streams, dk_entries>>
        /\ last' = [op |-> "disconnect", site_id |-> site_id, removed |-> Active(site_id)]
        /\ UNCHANGED <<now, processing_queue, alert_cooldowns, redis_thresholds, alerts,
                       prediction, lifeVars>>

\* realtime_analytics_websocket, except WebSocketDisconnect: receive_text raised
\* in the handler of this websocket; websocket_manager.disconnect (which does
\* nothing for a websocket it no longer holds), then stop_realtime_analysis
OnWebSocketDisconnect(site_id, websocket) ==
    /\ connections' = RemoveConnections(connections, site_id, {websocket})
    /\ stats' = StatsAfterDisconnect(site_id, websocket)
    /\ IF Active(site_id)
       THEN /\ active_streams' = DictDel(active_streams, site_id)
            /\ dk_entries' = DictDelete(dk_entries, site_id)
       ELSE UNCHANGED <<active_streams, dk_entries>>
    /\ last' = [op |-> "disconnect", site_id |-> site_id, removed |-> Active(site_id)]
    /\ UNCHANGED <<now, processing_queue, alert_cooldowns, redis_thresholds, alerts,
                   prediction, lifeVars>>

\* variant: the endpoint stops the analysis after any exception of the handler
OnHandlerErrorStopping(site_id, websocket) ==
    /\ connections' = RemoveConnections(connections, site_id, {websocket})
    /\ stats' = StatsAfterDisconnect(site_id, websocket)
    /\ IF Active(site_id)
       THEN /\ active_streams' = DictDel(active_streams, site_id)
            /\ dk_entries' = DictDelete(dk_entries, site_id)
       ELSE UNCHANGED <<active_streams, dk_entries>>
    /\ last' = [op |-> "handler_error", site_id |-> site_id]
    /\ UNCHANGED <<now, processing_queue, alert_cooldowns, redis_thresholds, alerts,
                   prediction, lifeVars>>

\* realtime_analytics_websocket, except Exception: the handler of this websocket
\* ended with another exception (json.loads of a message that is not JSON);
\* websocket_manager.disconnect only
OnHandlerError(site_id, websocket) ==
    /\ connections' = RemoveConnections(connections, site_id, {websocket})
    /\ stats' = StatsAfterDisconnect(site_id, websocket)
    /\ last' = [op |-> "handler_error", site_id |-> site_id]
    /\ UNCHANGED <<now, active_streams, dk_entries, processing_queue, alert_cooldowns,
                   redis_thresholds, alerts, prediction, lifeVars>>

----------------------------------------------------------------------------
(* Iteration over self.active_streams.items() *)

\* list(self.active_streams.items()): an iterator over a copy of the items
ListOfItems ==
    [live |-> FALSE,
     items |-> [i \in DOMAIN Keys |-> <<Keys[i], active_streams[Keys[i]]>>],
     di_used |-> Cardinality(DOMAIN active_streams), di_pos |-> 1,
     len |-> Cardinality(DOMAIN active_streams)]

\* iter(self.active_streams.items()): an iterator over the dict itself, with the
\* size of the dict when it was created, its position in the entry table and the
\* number of items it has yet to return
DictItems ==
    [live |-> TRUE, items |-> <<>>,
     di_used |-> Cardinality(DOMAIN active_streams), di_pos |-> 1,
     len |-> Cardinality(DOMAIN active_streams)]

\* next(it): the next (site_id, stream), StopIteration, or the RuntimeError of a
\* dict whose size or keys changed during the iteration
IterNext(it) ==
    LET stop == [kind |-> "stop", site_id |-> None, stream |-> None, it |-> it]
        error == [kind |-> "error", site_id |-> None, stream |-> None, it |-> it]
        ahead == {i \in it.di_pos..Len(dk_entries) : dk_entries[i] # Dummy}
        i == CHOOSE x \in ahead : \A y \in ahead : x <= y
    IN  IF ~it.live
        THEN IF it.di_pos > Len(it.items) THEN stop
             ELSE [kind |-> "item", site_id |-> it.items[it.di_pos][1],
                   stream |-> it.items[it.di_pos][2],
                   it |-> [it EXCEPT !.di_pos = @ + 1]]
        ELSE IF it.di_used # Cardinality(DOMAIN active_streams) THEN error
        ELSE IF ahead = {} THEN stop
        ELSE IF it.len = 0 THEN error
        ELSE [kind |-> "item", site_id |-> dk_entries[i],
              stream |-> active_streams[dk_entries[i]],
              it |-> [it EXCEPT !.di_pos = i + 1, !.len = @ - 1]]

----------------------------------------------------------------------------
(* Metrics aggregator *)

\* one cycle of _metrics_aggregator.  _aggregate_metrics returns a RealtimeMetrics
\* (a pydantic model): json.dumps of the message raises TypeError in
\* send_to_connection, which returns False without suspending, and send_to_site
\* removes every connection of the site as failed
\* variant: the aggregator recomputes the metrics from the buffer
AggregateMetricsRecomputing(stream) ==
    LET metrics == UpdateStreamMetrics(stream, now)
    IN  [page_views |-> metrics.page_views_per_minute,
         conversion_rate |-> metrics.conversion_rate,
         bounce_rate |-> metrics.bounce_rate,
         avg_session_duration |-> 180]

\* _aggregate_metrics(site_id, stream): the RealtimeMetrics built from the
\* snapshot and from sample values
AggregateMetrics(stream) ==
    [page_views |-> stream.metrics.page_views_per_minute,
     conversion_rate |-> stream.metrics.conversion_rate,
     bounce_rate |-> stream.metrics.bounce_rate,
     avg_session_duration |-> 180]

MetricsAggregator ==
    /\ is_running
    /\ worker_tasks["metrics"] = "running"
    /\ connections' = [s \in DOMAIN connections \ DOMAIN active_streams |-> connections[s]]
    /\ stats' = StatsAfterRemovals(connections',
                                   ConnectionCount(connections) - ConnectionCount(connections'))
    /\ last' = [op |-> "metrics",
                sent |-> {Message("realtime_metrics", s) : s \in DOMAIN active_streams},
                data |-> [s \in DOMAIN active_streams |-> AggregateMetrics(active_streams[s])]]
    /\ UNCHANGED <<now, active_streams, dk_entries, processing_queue, alert_cooldowns,
                   redis_thresholds, alerts, prediction, lifeVars>>

----------------------------------------------------------------------------
(* Forecast worker *)

\* stands for the 10 events _generate_predictions asks for
MinPredictionEvents == 2

\* "confidence": 0.75 of the dict _generate_predictions returns
confidence == <<3, 4>>

\* _generate_predictions(site_id, stream) returns a non-empty dict: the window
\* holds the minimum of events and the comparison of the page views' timestamps
\* with utcnow() does not raise (the except returns {})
GeneratePredictions(stream) ==
    /\ Len(stream.events) >= MinPredictionEvents
    /\ ~CompareRaises(SelectSeq(stream.events, LAMBDA e : e.event_type = "page_view"))

\* the for loop of _prediction_processor from the iterator's position on, up to
\* the first send_text that suspends the task, the end of the iteration or the
\* RuntimeError of the iterator (caught by the except of the cycle)
RECURSIVE PredictionLoop(_, _, _)
PredictionLoop(it, conns, sent) ==
    LET nx == IterNext(it)
    IN  IF nx.kind # "item"
        THEN [prediction |-> [pc |-> "sleep"], sent |-> sent, outcome |-> nx.kind]
        ELSE IF ~GeneratePredictions(nx.stream)
        THEN PredictionLoop(nx.it, conns, sent)
        ELSE IF nx.site_id \notin DOMAIN conns
        THEN PredictionLoop(nx.it, conns,
                            sent \cup {Message("predictions", nx.site_id)})
        ELSE [prediction |-> [pc |-> "send", it |-> nx.it, site_id |-> nx.site_id,
                              websocket |-> Head(conns[nx.site_id]),
                              tasks |-> Tail(conns[nx.site_id]), failed |-> {}],
              sent |-> sent \cup {Message("predictions", nx.site_id)},
              outcome |-> "suspended"]

\* the task after a cycle of a worker loop: an exception of the cycle is caught
\* by the except of the loop, which logs it and sleeps
AfterCycleEscaping(outcome) == IF outcome = "error" THEN "done" ELSE "running"
AfterCycle(outcome) == "running"

\* a cycle of _prediction_processor starts after its sleep
PredictionProcessor ==
    /\ is_running
    /\ worker_tasks["prediction"] = "running"
    /\ prediction.pc = "sleep"
    /\ \E r \in {PredictionLoop(DictItems, connections, {})} :
          /\ prediction' = r.prediction
          /\ worker_tasks' = [worker_tasks EXCEPT !["prediction"] = AfterCycle(r.outcome)]
          /\ last' = [op |-> "predict", sent |-> r.sent, outcome |-> r.outcome,
                      held |-> None]
    /\ UNCHANGED <<now, active_streams, dk_entries, processing_queue, alert_cooldowns,
                   redis_thresholds, alerts, connections, stats, is_running, cleanup_pc>>

\* websocket.send_text returns (success) or raises: send_to_site goes on with the
\* next connection of its copy of the list, and after the last one removes the
\* failed connections and returns to the loop of the worker
SendTextReturns(success) ==
    /\ worker_tasks["prediction"] = "running"
    /\ prediction.pc = "send"
    /\ LET failed == IF success THEN prediction.failed
                     ELSE prediction.failed \cup {prediction.websocket}
           conns == RemoveConnections(connections, prediction.site_id, failed)
       IN  IF prediction.tasks # <<>>
           THEN /\ prediction' = [prediction EXCEPT !.websocket = Head(prediction.tasks),
                                                    !.tasks = Tail(prediction.tasks),
                                                    !.failed = failed]
                /\ last' = [op |-> "predict", sent |-> {}, outcome |-> "suspended",
                            held |-> prediction.site_id]
                /\ UNCHANGED <<connections, stats, worker_tasks>>
           ELSE \E r \in {PredictionLoop(prediction.it, conns, {})} :
                   /\ prediction' = r.prediction
                   /\ worker_tasks' = [worker_tasks EXCEPT
                                          !["prediction"] = AfterCycle(r.outcome)]
                   /\ connections' = conns
                   /\ stats' = StatsAfterRemovals(conns, Cardinality(failed))
                   /\ last' = [op |-> "predict", sent |-> r.sent, outcome |-> r.outcome,
                               held |-> prediction.site_id]
    /\ UNCHANGED <<now, active_streams, dk_entries, processing_queue, alert_cooldowns,
                   redis_thresholds, alerts, is_running, cleanup_pc>>

----------------------------------------------------------------------------
(* Shutdown *)

\* cleanup() begins: is_running is cleared
Cleanup ==
    /\ cleanup_pc = "idle"
    /\ is_running' = FALSE
    /\ cleanup_pc' = "cancel"
    /\ last' = [op |-> "cleanup"]
    /\ UNCHANGED <<now, active_streams, dk_entries, processing_queue, alert_cooldowns,
                   redis_thresholds, alerts, connections, stats, prediction, worker_tasks>>

\* cleanup() cancels and awaits the next task of self.worker_tasks: the
\* CancelledError ends the task where it is suspended
CancelTask(w) ==
    /\ cleanup_pc = "cancel"
    /\ worker_tasks[w] = "running"
    /\ \A i, j \in DOMAIN WorkerOrder :
          (WorkerOrder[j] = w /\ i < j) => worker_tasks[WorkerOrder[i]] = "done"
    /\ worker_tasks' = [worker_tasks EXCEPT ![w] = "done"]
    /\ prediction' = IF w = "prediction" THEN [pc |-> "sleep"] ELSE prediction
    /\ last' = [op |-> "cleanup"]
    /\ UNCHANGED <<now, active_streams, dk_entries, processing_queue, alert_cooldowns,
                   redis_thresholds, alerts, connections, stats, is_running, cleanup_pc>>

\* variant: cleanup() cancels the tasks without awaiting them
ClearStreamsWithoutAwait ==
    /\ cleanup_pc = "cancel"
    /\ active_streams' = EmptyDict
    /\ dk_entries' = <<>>
    /\ cleanup_pc' = "done"
    /\ last' = [op |-> "cleanup"]
    /\ UNCHANGED <<now, processing_queue, alert_cooldowns, redis_thresholds, alerts,
                   connections, stats, prediction, is_running, worker_tasks>>

\* cleanup() ends: every task was awaited, self.active_streams.clear()
ClearStreams ==
    /\ cleanup_pc = "cancel"
    /\ \A w \in Workers : worker_tasks[w] = "done"
    /\ active_streams' = EmptyDict
    /\ dk_entries' = <<>>
    /\ cleanup_pc' = "done"
    /\ last' = [op |-> "cleanup"]
    /\ UNCHANGED <<now, processing_queue, alert_cooldowns, redis_thresholds, alerts,
                   connections, stats, prediction, is_running, worker_tasks>>

\* a worker that wakes up at the head of its loop finds is_running cleared and
\* returns (the dispatcher: after its wait for an event timed out)
WorkerExit(w) ==
    /\ ~is_running
    /\ worker_tasks[w] = "running"
    /\ w = "prediction" => prediction.pc = "sleep"
    /\ worker_tasks' = [worker_tasks EXCEPT ![w] = "done"]
    /\ last' = [op |-> "exit"]
    /\ UNCHANGED <<now, active_streams, dk_entries, processing_queue, alert_cooldowns,
                   redis_thresholds, alerts, connections, stats, prediction, is_running, cleanup_pc>>

----------------------------------------------------------------------------

Init ==
    /\ now = 0
    /\ active_streams = EmptyDict
    /\ dk_entries = <<>>
    /\ processing_queue = <<>>
    /\ alert_cooldowns = EmptyDict
    /\ redis_thresholds = EmptyDict
    /\ connections = EmptyDict
    /\ stats = [total_connections |-> 0, active_sites |-> 0]
    /\ prediction = [pc |-> "sleep"]
    /\ is_running = TRUE
    /\ worker_tasks = [w \in Workers |-> "running"]
    /\ cleanup_pc = "idle"
    /\ alerts = EmptyDict
    /\ last = [op |-> "init"]

\* The intake pipeline and the registry, for every tenant, at one instant of the
\* clock: queue, windows and registry do not depend on the time of day
NextIntake ==
    \/ \E s \in Tenants : StartRealtimeAnalysis(s)
    \/ \E s \in Tenants : StopRealtimeAnalysis(s)
    \/ \E s \in Tenants, b \in EventBatches : ProcessRealtimeData(s, b)
    \/ MainProcessor

SpecIntake == Init /\ [][NextIntake]_vars

\* The rule engine on the stream of one tenant: cooldown keys and windows are
\* per tenant, and no rule reads another tenant's state
NextAlerts ==
    \/ StartRealtimeAnalysis("A")
    \/ StopRealtimeAnalysis("A")
    \/ \E b \in EventBatches : ProcessRealtimeData("A", b)
    \/ MainProcessor
    \/ AlertProcessor({})
    \/ Tick

SpecAlerts == Init /\ [][NextAlerts]_vars

\* a single page view of session s1
PageView == [type |-> "page_view", timestamp |-> "iso", session_id |-> "s1"]

\* The rule engine over two tenants at one instant of the clock, with threshold
\* overrides and with _create_alert raising for one (site, rule) pair of a cycle
NextFaults ==
    \/ \E s \in Tenants : StartRealtimeAnalysis(s)
    \/ \E s \in Tenants : StopRealtimeAnalysis(s)
    \/ \E s \in Tenants : processing_queue = <<>> /\ ProcessRealtimeData(s, <<PageView>>)
    \/ MainProcessor
    \/ \E th \in ThresholdConfigs : ConfigureThresholds("A", th)
    \/ AlertProcessor({})
    \/ \E p \in Tenants \X RuleNames : AlertProcessor({p})

SpecFaults == Init /\ [][NextFaults]_vars

\* The workers that publish, at one instant of the clock: sessions of two
\* tenants, the websocket of a client of tenant A, page views, and the cycles of
\* the alert, metrics and forecast workers
NextWorkers ==
    \/ \E s \in Tenants : StartRealtimeAnalysis(s)
    \/ \E s \in Tenants : StopRealtimeAnalysis(s)
    \/ \E w \in Sockets : Connect("A", w)
    \/ \E w \in Sockets : Disconnect("A", w)
    \/ \E s \in Tenants : processing_queue = <<>> /\ ProcessRealtimeData(s, <<PageView>>)
    \/ MainProcessor
    \/ AlertProcessor({})
    \/ MetricsAggregator
    \/ PredictionProcessor
    \/ \E success \in BOOLEAN : SendTextReturns(success)

SpecWorkers == Init /\ [][NextWorkers]_vars

\* The life cycle of the workers with one tenant: sessions, a websocket, page
\* views, the four worker loops, and the shutdown of the service
NextLifecycle ==
    \/ StartRealtimeAnalysis("A")
    \/ StopRealtimeAnalysis("A")
    \/ \E w \in Sockets : Connect("A", w)
    \/ processing_queue = <<>> /\ ProcessRealtimeData("A", <<PageView>>)
    \/ MainProcessor
    \/ AlertProcessor({})
    \/ MetricsAggregator
    \/ PredictionProcessor
    \/ \E success \in BOOLEAN : SendTextReturns(success)
    \/ Cleanup
    \/ \E w \in Workers : CancelTask(w)
    \/ ClearStreams
    \/ \E w \in Workers : WorkerExit(w)

SpecLifecycle == Init /\ [][NextLifecycle]_vars

\* a purchase of session s1, an error event without session, and a page view
\* whose timestamp carries a UTC offset
Purchase == [type |-> "purchase", timestamp |-> "iso", session_id |-> "s1"]
ErrorEvent == [type |-> "error", timestamp |-> "missing", session_id |-> None]
AwareView == [type |-> "page_view", timestamp |-> "aware", session_id |-> "s1"]

MetricEvents == {Purchase, ErrorEvent, AwareView}

\* The dispatcher and the window metrics of two tenants: single events of three
\* kinds for tenant A and page views for tenant B, queued up to the bound before
\* a dispatch
NextMetrics ==
    \/ \E s \in Tenants : StartRealtimeAnalysis(s)
    \/ \E e \in MetricEvents : ProcessRealtimeData("A", <<e>>)
    \/ ProcessRealtimeData("B", <<PageView>>)
    \/ MainProcessor
    \/ Tick

SpecMetrics == Init /\ [][NextMetrics]_vars

\* Operations on tenants with and without a window
NextRegistry ==
    \/ \E s \in Tenants : StartRealtimeAnalysis(s)
    \/ \E s \in Tenants : StopRealtimeAnalysis(s)
    \/ \E s \in Tenants : processing_queue = <<>> /\ ProcessRealtimeData(s, <<PageView>>)
    \/ MainProcessor
    \/ \E s \in Tenants : QuickAnalysis(s)
    \/ \E s \in Tenants : \E t \in AlertTypes : SubscribeAlerts(s, t)

SpecRegistry == Init /\ [][NextRegistry]_vars

\* A session that is never stopped: the tenant's events, the four workers and
\* the clock.  The event loop runs every worker again and again, and time passes
NextIdle ==
    \/ StartRealtimeAnalysis("A")
    \/ processing_queue = <<>> /\ ProcessRealtimeData("A", <<PageView>>)
    \/ MainProcessor
    \/ AlertProcessor({})
    \/ MetricsAggregator
    \/ PredictionProcessor
    \/ Tick

SpecIdle ==
    /\ Init
    /\ [][NextIdle]_vars
    /\ WF_vars(Tick)
    /\ WF_vars(MainProcessor)
    /\ WF_vars(AlertProcessor({}))
    /\ WF_vars(MetricsAggregator)
    /\ WF_vars(PredictionProcessor)

\* events with different contents and parsable timestamps
OwnedEvents == {PageView, Purchase, ErrorEvent}

\* the event e is in the queue or in a window
Held(e) ==
    \/ e \in Range(processing_queue)
    \/ \E s \in DOMAIN active_streams : e \in Range(active_streams[s].events)

\* Events told apart by their content: a client submits an event, alone or
\* with a second one, only while no equal event is in the queue or in a window
NextOwnership ==
    \/ \E s \in Tenants : StartRealtimeAnalysis(s)
    \/ \E s \in Tenants : StopRealtimeAnalysis(s)
    \/ \E s \in Tenants : \E e \in OwnedEvents :
          /\ ~Held(RealtimeEvent(s, e))
          /\ ProcessRealtimeData(s, <<e>>)
    \/ \E s \in Tenants : \E e1, e2 \in OwnedEvents :
          /\ e1 # e2
          /\ ~Held(RealtimeEvent(s, e1)) /\ ~Held(RealtimeEvent(s, e2))
          /\ ProcessRealtimeData(s, <<e1, e2>>)
    \/ MainProcessor

SpecOwnership == Init /\ [][NextOwnership]_vars

\* The dispatcher with a queue longer than its batch
NextDispatch ==
    \/ \E s \in Tenants : StartRealtimeAnalysis(s)
    \/ \E s \in Tenants : \E e \in {PageView, ErrorEvent} :
          ProcessRealtimeDataUpTo(s, <<e>>, DispatchQueueBound)
    \/ MainProcessor
    \/ MainProcessorTimeout

SpecDispatch == Init /\ [][NextDispatch]_vars

\* One tenant with every component that reads its window, and the clock
NextFrame ==
    \/ StartRealtimeAnalysis("A")
    \/ processing_queue = <<>> /\ ProcessRealtimeData("A", <<PageView>>)
    \/ MainProcessor
    \/ MetricsAggregator
    \/ AlertProcessor({})
    \/ PredictionProcessor
    \/ QuickAnalysis("A")
    \/ \E t \in AlertTypes : SubscribeAlerts("A", t)
    \/ \E th \in ThresholdConfigs : ConfigureThresholds("A", th)
    \/ Tick

SpecFrame == Init /\ [][NextFrame]_vars

\* The cooldowns of one tenant across its sessions, the alert cycles, the other
\* operations of the service, its shutdown and the clock
NextCooldown ==
    \/ StartRealtimeAnalysis("A")
    \/ StopRealtimeAnalysis("A")
    \/ processing_queue = <<>> /\ ProcessRealtimeData("A", <<PageView>>)
    \/ MainProcessor
    \/ AlertProcessor({})
    \/ \E t \in AlertTypes : SubscribeAlerts("A", t)
    \/ \E th \in ThresholdConfigs : ConfigureThresholds("A", th)
    \/ Cleanup
    \/ \E w \in Workers : CancelTask(w)
    \/ ClearStreams
    \/ Tick

SpecCooldown == Init /\ [][NextCooldown]_vars

\* the snapshots of a window after an update over twenty events of ten
\* sessions in the lookback: bounced sessions over sessions, errors over events
Snapshots ==
    { [EmptyMetrics EXCEPT !.events_per_minute = 20, !.unique_sessions = 10,
                           !.bounce_rate = <<b, 10>>, !.conversion_rate = <<0, 20>>,
                           !.error_rate = <<e, 20>>] : b \in {0, 7, 8, 9, 10}, e \in {0, 1, 2} }

\* The rule engine on a given snapshot: tenant A has a window whose metrics are
\* one of Snapshots (its buffer, which the threshold rules do not read, is left
\* out), and alert cycles run as the clock advances
InitCondition ==
    /\ now = 0
    /\ \E metrics \in Snapshots :
          active_streams = DictSet(EmptyDict, "A", [StreamingWindow EXCEPT !.metrics = metrics])
    /\ dk_entries = <<"A">>
    /\ processing_queue = <<>>
    /\ alert_cooldowns = EmptyDict
    /\ redis_thresholds = EmptyDict
    /\ connections = EmptyDict
    /\ stats = [total_connections |-> 0, active_sites |-> 0]
    /\ prediction = [pc |-> "sleep"]
    /\ is_running = TRUE
    /\ worker_tasks = [w \in Workers |-> "running"]
    /\ cleanup_pc = "idle"
    /\ alerts = EmptyDict
    /\ last = [op |-> "init"]

NextCondition ==
    \/ AlertProcessor({})
    \/ Tick

SpecCondition == InitCondition /\ [][NextCondition]_vars

\* The rule engine on a window of page views and purchases, with the clock
NextBaseline ==
    \/ StartRealtimeAnalysis("A")
    \/ \E e \in {PageView, Purchase} : processing_queue = <<>> /\ ProcessRealtimeData("A", <<e>>)
    \/ MainProcessor
    \/ AlertProcessor({})
    \/ Tick

SpecBaseline == Init /\ [][NextBaseline]_vars

\* A tenant whose traffic stops: page views and errors of tenant A during the
\* first minutes, a page view of tenant B, the dispatcher, the alert cycles,
\* and a clock that runs past the cooldowns of the rules
NextStale ==
    \/ \E s \in Tenants : StartRealtimeAnalysis(s)
    \/ \E e \in {PageView, ErrorEvent} :
          processing_queue = <<>> /\ now <= TickStep /\ ProcessRealtimeData("A", <<e>>)
    \/ processing_queue = <<>> /\ now = 0 /\ ProcessRealtimeData("B", <<PageView>>)
    \/ MainProcessor
    \/ AlertProcessor({})
    \/ TickUpTo(StaleTime)

SpecStale == Init /\ [][NextStale]_vars

\* Sessions of tenant A that begin and end at any time, also while the forecast
\* worker is suspended in a send to A's websocket; tenant B, without websocket,
\* starts its session between two cycles and never stops it
NextChurn ==
    \/ StartRealtimeAnalysis("A")
    \/ StopRealtimeAnalysis("A")
    \/ prediction.pc = "sleep" /\ StartRealtimeAnalysis("B")
    \/ \E w \in Sockets : Connect("A", w)
    \/ \E s \in Tenants : processing_queue = <<>> /\ ProcessRealtimeData(s, <<PageView>>)
    \/ MainProcessor
    \/ AlertProcessor({})
    \/ MetricsAggregator
    \/ PredictionProcessor
    \/ \E success \in BOOLEAN : SendTextReturns(success)

SpecChurn == Init /\ [][NextChurn]_vars

\* websocket.send_text of the send the forecast worker is suspended in returns,
\* for a connection of the given tenant
SinkReturns(site_id) ==
    /\ prediction.pc = "send"
    /\ prediction.site_id = site_id
    /\ \E success \in BOOLEAN : SendTextReturns(success)

\* A sink that never answers: the clients of both tenants connect, but a
\* send_text to a websocket of tenant A never returns, while one to tenant B
\* does.  The event loop runs every task that can run again and again (the
\* alert engine, which hands nothing to the sink, is left out)
NextStalled ==
    \/ \E s \in Tenants : StartRealtimeAnalysis(s)
    \/ \E s \in Tenants : \E w \in Sockets : Connect(s, w)
    \/ \E s \in Tenants : processing_queue = <<>> /\ ProcessRealtimeData(s, <<PageView>>)
    \/ MainProcessor
    \/ MetricsAggregator
    \/ PredictionProcessor
    \/ SinkReturns("B")

SpecStalled ==
    /\ Init
    /\ [][NextStalled]_vars
    /\ WF_vars(MainProcessor)
    /\ WF_vars(MetricsAggregator)
    /\ WF_vars(PredictionProcessor)
    /\ WF_vars(SinkReturns("B"))

\* The websocket endpoint of one site with two clients: each handler connects,
\* starts the analysis, and ends with a disconnect or with another exception,
\* while events arrive and the workers run
NextEndpoint ==
    \/ \E w \in EndpointSockets : Connect("A", w)
    \/ "A" \in DOMAIN connections /\ StartRealtimeAnalysis("A")
    \/ \E w \in EndpointSockets : OnWebSocketDisconnect("A", w)
    \/ \E w \in EndpointSockets : OnHandlerError("A", w)
    \/ processing_queue = <<>> /\ ProcessRealtimeData("A", <<PageView>>)
    \/ MainProcessor
    \/ AlertProcessor({})
    \/ MetricsAggregator
    \/ PredictionProcessor
    \/ \E success \in BOOLEAN : SendTextReturns(success)
    \/ Cleanup
    \/ \E w \in Workers : CancelTask(w)
    \/ ClearStreams

SpecEndpoint == Init /\ [][NextEndpoint]_vars

\* The forecast engine with two tenants without websocket: A's events are of
\* every kind and timestamp form, B's are page views
NextForecast ==
    \/ \E s \in Tenants : StartRealtimeAnalysis(s)
    \/ \E e \in MetricEvents \cup {PageView} : ProcessRealtimeData("A", <<e>>)
    \/ ProcessRealtimeData("B", <<PageView>>)
    \/ MainProcessor
    \/ PredictionProcessor

SpecForecast == Init /\ [][NextForecast]_vars

----------------------------------------------------------------------------
(* Properties *)

\* the last firing of a (site, rule) pair
LastFired(k) == alerts[k][Len(alerts[k])]

\* the rule's metric crosses the rule's threshold on the window as it stands:
\* above the absolute threshold, above baseline * multiplier for a spike rule,
\* below baseline * multiplier for a drop rule
Crosses(site_id, rule_name) ==
    LET rule == alert_rules(rule_name)
        stream == active_streams[site_id]
        value == MetricGet(stream, rule.metric)
        baseline == GetHistoricalAverage(stream, rule.metric, rule.window_minutes, now)
    IN  CASE rule.kind = "threshold" -> value[1] * rule.value[2] > rule.value[1] * value[2]
          [] rule.value[1] > rule.value[2] ->
               value[1] * baseline[2] * rule.value[2] > baseline[1] * rule.value[1] * value[2]
          [] OTHER ->
               value[1] * baseline[2] * rule.value[2] < baseline[1] * rule.value[1] * value[2]

\* C1: two alerts of the same (tenant, rule) pair are never closer in time than
\* the rule's cooldown_minutes, whatever is ingested, dispatched, started or
\* stopped in between
C1_CooldownCorrectness ==
    \A k \in DOMAIN alerts : \A i, j \in DOMAIN alerts[k] :
        i < j => alerts[k][j] >= alerts[k][i] + alert_rules(k[2]).cooldown_minutes

\* C1 witness: a rule fired, later events were dispatched into the window, and an
\* alert cycle then reached the rule with its condition holding and did not fire it
C1_Witness ==
    /\ last.op = "alert"
    /\ \E k \in last.evaluated \ last.fired :
          /\ k \in DOMAIN alerts
          /\ k[1] \in DOMAIN active_streams
          /\ active_streams[k[1]].last_update > LastFired(k)
          /\ CheckAlertCondition(active_streams[k[1]], alert_rules(k[2]), now)

\* C2: no window ever holds more than maxlen events
C2_BoundedWindow ==
    \A s \in DOMAIN active_streams : Len(active_streams[s].events) <= maxlen

\* C2 witness: a dispatch appended to a window that had no room for the batch
C2_Witness ==
    /\ last.op = "dispatch"
    /\ \E s \in last.evicted : Len(active_streams[s].events) = maxlen

\* C3 (as claimed): the queue never holds more events than the capacity it was
\* built with
C3_QueueWithinCapacity == Len(processing_queue) <= maxsize

\* C4: a step that adds a tenant to the registry is a start_realtime_analysis of
\* that tenant; the dispatcher never creates a window for the events it drops
C4_OnlyStartAddsTenant ==
    [][\A s \in Tenants :
          (s \notin DOMAIN active_streams /\ s \in DOMAIN active_streams')
              => StartRealtimeAnalysis(s)]_vars

\* C4 witness: the dispatcher dropped the queued events of the tenant that was
\* stopped just before, and the tenant has no window
C4_Witness ==
    /\ last.op = "dispatch"
    /\ \E s \in last.stopped \cap last.dropped : s \notin DOMAIN active_streams

\* the override stored for the tenant's metric, while its key has not expired
Override(site_id, metric) ==
    IF /\ site_id \in DOMAIN redis_thresholds
       /\ now < redis_thresholds[site_id].expires
       /\ redis_thresholds[site_id].thresholds.metric = metric
    THEN {redis_thresholds[site_id].thresholds.value} ELSE {}

\* C5 (as claimed): while an override is stored for a tenant's bounce_rate, the
\* rule high_bounce_rate does not fire for a bounce_rate that does not exceed it
C5_OverrideTakesPrecedence ==
    last.op = "alert" =>
        \A s \in DOMAIN active_streams : \A v \in Override(s, "bounce_rate") :
            ~Gt(active_streams[s].metrics.bounce_rate, v)
                => <<s, "high_bounce_rate">> \notin last.fired

\* C6: every message a worker cycle hands to send_to_site is for a tenant that
\* has a window when it is handed over, also in the part of a forecast cycle that
\* runs after the task was suspended in send_text
C6_NoPublishAfterRemoval ==
    last.op \in {"alert", "metrics", "predict"} =>
        \A m \in last.sent : m.site_id \in DOMAIN active_streams

\* C6 witness: the forecast worker was suspended while sending the prediction of
\* a tenant, the tenant's window was removed meanwhile, and the worker resumed
\* and ended its cycle
C6_Witness ==
    /\ last.op = "predict"
    /\ last.held # None
    /\ last.held \notin DOMAIN active_streams
    /\ last.outcome # "suspended"

\* the events the next dispatcher cycle takes from the queue
NextBatch ==
    SubSeq(processing_queue, 1, Min(Len(processing_queue), realtime_batch_size))

\* C11: a dispatcher cycle leaves every tenant's window as a cycle over that
\* tenant's events alone would: all its events appended and its metrics
\* recomputed, whatever other tenants' events are in the batch and wherever
\* they stand in it, also when the metrics update of another tenant raises
C11_Isolation ==
    [][MainProcessor =>
         \A b \in DOMAIN active_streams :
             active_streams'[b] =
                 ProcessEventsBatch(active_streams,
                     SelectSeq(NextBatch, LAMBDA e : e.site_id = b))[b]]_vars

\* C11 witness: one batch held events of two tenants, the metrics update of one
\* raised on an aware timestamp, and the other's metrics were recomputed from
\* its own event
C11_Witness ==
    /\ last.op = "dispatch"
    /\ \E a \in last.raised : \E b \in last.updated \ last.raised :
          /\ a # b
          /\ active_streams[b].metrics.events_per_minute > 0
          /\ active_streams[a].metrics.events_per_minute = 0

\* the ratio metrics of a window
RateMetrics(stream) ==
    {stream.metrics.bounce_rate, stream.metrics.conversion_rate, stream.metrics.error_rate}

\* C12: a worker task has ended only after cleanup() cleared is_running; after
\* a forecast cycle that ended with the RuntimeError of its iteration the task
\* is alive and, while the service runs, its next cycle can start
C12_WorkersSurvive ==
    /\ \A w \in Workers : worker_tasks[w] = "done" => ~is_running
    /\ (last.op = "predict" /\ last.outcome = "error")
          => /\ worker_tasks["prediction"] = "running"
             /\ is_running => ENABLED PredictionProcessor

\* C12 witness: the iteration of a forecast cycle raised, the service runs and
\* the forecast task is alive
C12_Witness ==
    /\ last.op = "predict"
    /\ last.outcome = "error"
    /\ is_running
    /\ worker_tasks["prediction"] = "running"

\* C13: stop_realtime_analysis(T) leaves the registry without T and otherwise
\* as it was, and logs no error; called for a tenant without window, as a second
\* call in a row is, it changes neither the registry nor its entry table
C13_StopIdempotent ==
    [][\A s \in Tenants :
          (last'.op = "stop" /\ last'.site_id = s)
             => /\ active_streams' = DictDel(active_streams, s)
                /\ ~last'.error
                /\ ~Active(s)'
                /\ ~Active(s) => UNCHANGED <<active_streams, dk_entries>>]_vars

\* C13 witness: stop was called for a tenant without window (no entry of the
\* table is that of a deleted key) while the other tenant has one
C13_Witness ==
    /\ last.op = "stop"
    /\ \A i \in DOMAIN dk_entries : dk_entries[i] # Dummy
    /\ active_streams # EmptyDict

\* C14: the registry holds every tenant at most once; start_realtime_analysis(T)
\* leaves the registry as it is when T has a window (its events, metrics and
\* last_update included), and otherwise adds an empty window for T, with zero
\* metrics and the current time, as the last key of the registry
C14_StartFrame ==
    /\ [](/\ \A i, j \in DOMAIN Keys : Keys[i] = Keys[j] => i = j
          /\ Range(Keys) = DOMAIN active_streams)
    /\ [][\A s \in Tenants :
            StartRealtimeAnalysis(s)
               => IF Active(s)
                  THEN UNCHANGED <<active_streams, dk_entries>>
                  ELSE /\ active_streams' =
                            DictSet(active_streams, s,
                                    [events |-> <<>>, metrics |-> EmptyMetrics,
                                     last_update |-> now, subscribed_alerts |-> NoTypes])
                       /\ Keys' = Append(Keys, s)]_vars

\* C14 witness: start was called while the window of every tenant held events
C14_Witness ==
    /\ last.op = "session"
    /\ \A s \in Tenants : Active(s) /\ active_streams[s].events # <<>>

\* C16: a forecast cycle that went through the whole registry produced a
\* prediction for exactly the tenants whose window holds the minimum number of
\* events, and the confidence of the prediction is within [0, 1]
C16_ForecastFloor ==
    (last.op = "predict" /\ last.outcome = "stop" /\ last.held = None)
       => \A s \in DOMAIN active_streams :
             /\ Len(active_streams[s].events) < MinPredictionEvents
                   => Message("predictions", s) \notin last.sent
             /\ Len(active_streams[s].events) >= MinPredictionEvents
                   => /\ Message("predictions", s) \in last.sent
                      /\ ~Lt(confidence, <<0, 1>>)
                      /\ ~Gt(confidence, <<1, 1>>)

\* the counts of a submitted batch: its events, the distinct session ids among
\* them, its page views and its purchases and signups
BatchCounts(event_data) ==
    [events_processed |-> Len(event_data),
     unique_sessions |-> Cardinality({r.session_id : r \in Range(event_data)} \ {None}),
     page_views |-> Cardinality({i \in DOMAIN event_data : event_data[i].type = "page_view"}),
     conversions |-> Cardinality({i \in DOMAIN event_data :
                                    event_data[i].type \in {"purchase", "signup"}})]

\* C17: the snapshot process_realtime_data returns for a batch that parses is
\* the counts of that batch, whatever the tenant and the state of the registry
C17_SnapshotOfBatch ==
    [][\A s \in Tenants : \A b \in EventBatches :
          (ProcessRealtimeData(s, b) /\ last'.result = "ok")
             => last'.instant_metrics = BatchCounts(b)]_vars

\* C17 witness: a batch of two events of one session was ingested while the
\* window of a tenant held events and the other tenant had no window
C17_Witness ==
    /\ last.op = "ingest"
    /\ last.result = "ok"
    /\ last.instant_metrics.events_processed = 2
    /\ last.instant_metrics.unique_sessions = 1
    /\ \E s \in Tenants : ~Active(s)
    /\ \E s \in DOMAIN active_streams : active_streams[s].events # <<>>

\* the registry is as before and the tenant has no window
RegistryMiss(s) == ~Active(s)' /\ UNCHANGED <<active_streams, dk_entries>>

C19_PublicationFailure ==
    last.op = "alert" =>
        /\ \A k \in last.fired :
              SendAlert(k[1], k[2]) = {}
                 => /\ last.sent = {}
                    /\ Cardinality({i \in DOMAIN alerts[k] : alerts[k][i] = now}) = 1
                    /\ k \in DOMAIN alert_cooldowns
                    /\ alert_cooldowns[k] = now + alert_rules(k[2]).cooldown_minutes
        /\ last.failed = {} => last.evaluated = (DOMAIN active_streams) \X RuleNames

\* C19 witness: a cycle over two tenants fired a rule of the first tenant of the
\* registry, whose publication failed, and no _create_alert raised
C19_Witness ==
    /\ last.op = "alert"
    /\ last.failed = {}
    /\ Len(Keys) = 2
    /\ \E k \in last.fired :
          /\ k[1] = Keys[1]
          /\ k[2] # RuleOrder[Len(RuleOrder)]
          /\ SendAlert(k[1], k[2]) = {}

\* the window of the tenant has seen no event for longer than the idle timeout
Idle(s) == Active(s) /\ now > active_streams[s].last_update + IdleTimeout

\* C20 (as claimed): a window that is idle beyond the timeout is eventually
\* removed from the registry, unless events of the tenant arrive again
C20_IdleWindowRemoved ==
    \A s \in Tenants : Idle(s) ~> (~Active(s) \/ ~Idle(s))

\* C15: bounce_rate, conversion_rate and error_rate of every window lie in
\* [0, 1]: a positive denominator and a numerator between 0 and the denominator
C15_RateBounds ==
    \A s \in DOMAIN active_streams : \A r \in RateMetrics(active_streams[s]) :
        r[2] > 0 /\ 0 <= r[1] /\ r[1] <= r[2]

\* C15 witness: a window of a purchase and an error event: every session
\* bounced, and half of the events are conversions and half are errors
C15_Witness ==
    \E s \in DOMAIN active_streams :
        /\ active_streams[s].metrics.bounce_rate = <<1, 1>>
        /\ active_streams[s].metrics.conversion_rate = <<1, 2>>
        /\ active_streams[s].metrics.error_rate = <<1, 2>>

\* C7 (as claimed): an alert cycle reaches every rule of every active tenant,
\* also when the alert of one pair could not be built
C7_FailureCaughtPerPair ==
    last.op = "alert" => last.evaluated = (DOMAIN active_streams) \X RuleNames

\* C8: every alert of a cycle belongs to a rule whose metric crosses the rule's
\* threshold on the tenant's window
C8_NoFalsePositives ==
    last.op = "alert" => \A k \in last.fired : Crosses(k[1], k[2])

\* C8 witness: a cycle fired one rule of a tenant and left alone another rule
\* that has never fired and whose metric was computed from events of a session
C8_Witness ==
    /\ last.op = "alert"
    /\ \E s \in DOMAIN active_streams :
          /\ <<s, "traffic_spike">> \in last.fired
          /\ <<s, "high_bounce_rate">> \in last.evaluated
          /\ <<s, "high_bounce_rate">> \notin DOMAIN alerts
          /\ active_streams[s].metrics.unique_sessions > 0

\* C9: after an alert cycle, a rule that has fired before and whose condition
\* holds on the tenant's window is inside the cooldown of a firing: if the
\* cooldown of its earlier firing was over, the cycle fired it again
C9_RefireAfterCooldown ==
    last.op = "alert" =>
        \A k \in DOMAIN alerts :
            (/\ k[1] \in DOMAIN active_streams
             /\ CheckAlertCondition(active_streams[k[1]], alert_rules(k[2]), now))
                => LastFired(k) + alert_rules(k[2]).cooldown_minutes > now

\* C9 witness: a cycle fired a rule for the second time
C9_Witness ==
    /\ last.op = "alert"
    /\ \E k \in last.fired : Len(alerts[k]) = 2

\* C10 (as claimed): an ingest call with a malformed event returns its snapshot
\* and has enqueued exactly its well-formed events
C10_OnlyMalformedDropped ==
    (last.op = "ingest" /\ last.malformed > 0)
        => (last.result = "ok" /\ last.enqueued = last.wellformed)

\* C21: a dispatcher cycle leaves in every window the last maxlen events of
\* what the window held followed by the tenant's events of the batch, in the
\* order in which they stood in the queue; a window starts empty, so it always
\* holds the most recent min(k, maxlen) of the k events dispatched to it
C21_FifoWindow ==
    [][MainProcessor =>
         \A s \in DOMAIN active_streams :
            /\ s \in DOMAIN active_streams'
            /\ active_streams'[s].events =
                  LastN(active_streams[s].events
                          \o SelectSeq(NextBatch, LAMBDA e : e.site_id = s), maxlen)]_vars

\* C21 witness: a dispatch evicted from a full window, which now holds an error
\* event followed by a page view
C21_Witness ==
    /\ last.op = "dispatch"
    /\ \E s \in last.evicted :
          /\ Len(active_streams[s].events) = maxlen
          /\ active_streams[s].events[1].event_type = "error"
          /\ active_streams[s].events[maxlen].event_type = "page_view"

\* the number of times the event e stands in the queue and in the windows
Copies(e) ==
    Cardinality({i \in DOMAIN processing_queue : processing_queue[i] = e})
    + Cardinality({<<s, i>> \in (DOMAIN active_streams) \X (1..maxlen) :
                     /\ i \in DOMAIN active_streams[s].events
                     /\ active_streams[s].events[i] = e})

\* C22: an event is never held more than once, counting the queue and every
\* position of every window, and a window holds only events of its own tenant;
\* a dispatcher cycle takes its events out of the queue
C22_SingleOwner ==
    /\ [](/\ \A e \in Range(processing_queue) : Copies(e) = 1
          /\ \A s \in DOMAIN active_streams : \A e \in Range(active_streams[s].events) :
                e.site_id = s /\ Copies(e) = 1)
    /\ [][MainProcessor =>
            /\ Len(processing_queue') = Len(processing_queue) - Len(NextBatch)
            /\ \A e \in Range(NextBatch) :
                  Active(e.site_id) => e \in Range(active_streams'[e.site_id].events)]_vars

\* C22 witness: dispatches have filled both windows and two more events wait
\* in the queue
C22_Witness ==
    /\ Len(processing_queue) = 2
    /\ \A s \in Tenants : Active(s) /\ Len(active_streams[s].events) = maxlen

\* C23: a dispatcher cycle can run whenever the queue holds an event; it takes
\* the first min(queue length, realtime_batch_size) events, at least one and at
\* most realtime_batch_size, and processes exactly those; a cycle whose wait
\* timed out found the queue empty and changes neither queue nor registry
C23_BatchBounds ==
    /\ [](processing_queue # <<>> => ENABLED MainProcessor)
    /\ [][MainProcessor =>
            LET n == Len(processing_queue) - Len(processing_queue')
            IN  /\ 1 <= n /\ n <= realtime_batch_size
                /\ n = Min(Len(processing_queue), realtime_batch_size)
                /\ processing_queue' = SubSeq(processing_queue, n + 1, Len(processing_queue))
                /\ active_streams' =
                      ProcessEventsBatch(active_streams, SubSeq(processing_queue, 1, n))]_vars
    /\ [][MainProcessorTimeout =>
            /\ processing_queue = <<>>
            /\ UNCHANGED <<processing_queue, active_streams, dk_entries>>]_vars

\* C23 witness: a cycle took a full batch and left an event in the queue
C23_Witness ==
    /\ last.op = "dispatch"
    /\ processing_queue # <<>>
    /\ \E s \in DOMAIN active_streams : active_streams[s].events # <<>>

\* the events of a window inside the one-minute lookback of the clock
InLookback(s) == SelectSeq(active_streams[s].events, LAMBDA e : e.timestamp > now - 1)

\* C24 (as claimed): after a dispatcher update of a window, bounce_rate is 0
\* when no event of the lookback carries a session id, and conversion_rate and
\* error_rate are 0 when the lookback holds no event
C24_ZeroDenominator ==
    last.op = "dispatch" =>
        \A s \in (last.updated \ last.raised) \cap DOMAIN active_streams :
            /\ (\A e \in Range(InLookback(s)) : e.session_id = None)
                  => active_streams[s].metrics.bounce_rate[1] = 0
            /\ InLookback(s) = <<>>
                  => /\ active_streams[s].metrics.conversion_rate[1] = 0
                     /\ active_streams[s].metrics.error_rate[1] = 0

\* the session ids of the events of a window inside the lookback
LookbackSessions(s) == {e.session_id : e \in Range(InLookback(s))} \ {None}

\* the sessions of the lookback with exactly one event in it
BouncedSessions(s) ==
    {x \in LookbackSessions(s) :
        Cardinality({i \in DOMAIN InLookback(s) : InLookback(s)[i].session_id = x}) = 1}

\* C25 (as claimed): after a dispatcher update of a window with a session in
\* the lookback, bounce_rate is the number of sessions with exactly one event
\* in the lookback divided by the number of sessions in it
C25_BounceRate ==
    last.op = "dispatch" =>
        \A s \in last.updated \cap DOMAIN active_streams :
            LookbackSessions(s) # {}
               => active_streams[s].metrics.bounce_rate
                    = <<Cardinality(BouncedSessions(s)), Cardinality(LookbackSessions(s))>>

\* C26 (as claimed): after a dispatcher update of a window, events_per_minute,
\* page_views_per_minute and unique_sessions are the counts over the buffered
\* events inside the one-minute lookback, and over no older event
C26_LookbackCounts ==
    last.op = "dispatch" =>
        \A s \in last.updated \cap DOMAIN active_streams :
            /\ active_streams[s].metrics.events_per_minute = Len(InLookback(s))
            /\ active_streams[s].metrics.page_views_per_minute =
                  Cardinality({i \in DOMAIN InLookback(s) :
                                 InLookback(s)[i].event_type = "page_view"})
            /\ active_streams[s].metrics.unique_sessions = Cardinality(LookbackSessions(s))

\* the events and the metrics of every window
Buffers == [s \in DOMAIN active_streams |->
              [events |-> active_streams[s].events, metrics |-> active_streams[s].metrics]]

\* C27: a cycle of the metrics aggregator, of the alert engine or of the
\* forecast engine, a quick analysis, a subscription and a threshold
\* configuration leave the events and the metrics of every window as they are,
\* and the metrics the aggregator hands to the sink are those of the snapshot
C27_OnlyDispatcherWrites ==
    /\ [][(\/ MetricsAggregator
           \/ AlertProcessor({})
           \/ PredictionProcessor
           \/ \E s \in Tenants : QuickAnalysis(s)
           \/ \E s \in Tenants : \E t \in AlertTypes : SubscribeAlerts(s, t)
           \/ \E s \in Tenants : \E th \in ThresholdConfigs : ConfigureThresholds(s, th))
             => Buffers' = Buffers]_vars
    /\ [](last.op = "metrics" =>
            \A s \in DOMAIN active_streams :
               /\ last.data[s].page_views = active_streams[s].metrics.page_views_per_minute
               /\ last.data[s].bounce_rate = active_streams[s].metrics.bounce_rate
               /\ last.data[s].conversion_rate = active_streams[s].metrics.conversion_rate)

\* C27 witness: the aggregator ran on a window whose snapshot counts page views
\* that have left the lookback since
C27_Witness ==
    /\ last.op = "metrics"
    /\ \E s \in DOMAIN active_streams :
          /\ active_streams[s].metrics.page_views_per_minute > 0
          /\ InLookback(s) = <<>>

\* C28: no step removes an entry of alert_cooldowns or moves it to an earlier
\* time, and a step that adds or changes an entry is an alert cycle in which
\* the entry's rule fired, which sets it to the time of the cycle plus the
\* rule's cooldown_minutes
C28_CooldownOwnership ==
    [][/\ DOMAIN alert_cooldowns \subseteq DOMAIN alert_cooldowns'
       /\ \A k \in DOMAIN alert_cooldowns' :
             IF k \in DOMAIN alert_cooldowns /\ alert_cooldowns'[k] = alert_cooldowns[k]
             THEN TRUE
             ELSE /\ last'.op = "alert"
                  /\ k \in last'.fired
                  /\ alert_cooldowns'[k] = now + alert_rules(k[2]).cooldown_minutes
                  /\ k \in DOMAIN alert_cooldowns => alert_cooldowns'[k] > alert_cooldowns[k]]_vars

\* C28 witness: the tenant has a new, empty window and a cooldown of one of
\* its rules, set in an earlier session, has not ended
C28_Witness ==
    /\ Active("A")
    /\ active_streams["A"].events = <<>>
    /\ \E k \in DOMAIN alert_cooldowns : k[1] = "A" /\ alert_cooldowns[k] > now

\* the rules with an absolute threshold
ThresholdRules == {r \in RuleNames : alert_rules(r).kind = "threshold"}

\* the value of the rule's metric in the tenant's snapshot exceeds the threshold
ExceedsThreshold(s, r) ==
    LET metrics == active_streams[s].metrics
        value == CASE r = "high_bounce_rate" -> metrics.bounce_rate
                   [] r = "server_error_spike" -> metrics.error_rate
                   [] OTHER -> <<0, 1>>
        threshold == CASE r = "high_bounce_rate" -> <<8, 10>>
                       [] r = "server_error_spike" -> <<5, 100>>
                       [] OTHER -> <<1, 10>>
    IN  value[1] * threshold[2] > threshold[1] * value[2]

MultiplierRules == {r \in RuleNames : alert_rules(r).kind = "threshold_multiplier"}

\* the average of the rule's metric over the events of the tenant's window
\* inside the rule's trailing window_minutes: page views per minute, or
\* conversions per event; 0 without such events
WindowAverage(s, r) ==
    LET rule == alert_rules(r)
        inside == SelectSeq(active_streams[s].events,
                            LAMBDA e : e.timestamp > now - rule.window_minutes)
        views == Cardinality({i \in DOMAIN inside : inside[i].event_type = "page_view"})
        conversions == Cardinality({i \in DOMAIN inside :
                          inside[i].event_type \in {"purchase", "signup", "conversion"}})
    IN  IF inside = <<>> THEN <<0, 1>>
        ELSE IF rule.metric = "page_views_per_minute" THEN <<views, rule.window_minutes>>
        ELSE <<conversions, Len(inside)>>

\* the rule's condition on the tenant's snapshot: above the multiple of the
\* baseline for a multiplier over 1, below it for a multiplier under 1, and
\* never with a baseline of 0
ShouldFire(s, r) ==
    LET rule == alert_rules(r)
        value == MetricGet(active_streams[s], rule.metric)
        baseline == WindowAverage(s, r)
        multiple == <<baseline[1] * rule.value[1], baseline[2] * rule.value[2]>>
    IN  /\ baseline[1] > 0
        /\ IF rule.value[1] > rule.value[2]
           THEN value[1] * multiple[2] > multiple[1] * value[2]
           ELSE value[1] * multiple[2] < multiple[1] * value[2]

\* C30 (as claimed): in an alert cycle a multiplier rule fires only if its
\* condition holds against the average over its trailing window, and a rule
\* whose condition holds and that did not fire is inside a cooldown
C30_RelativeMultiplier ==
    last.op = "alert" =>
        \A s \in DOMAIN active_streams : \A r \in MultiplierRules :
            /\ <<s, r>> \in last.fired => ShouldFire(s, r)
            /\ (ShouldFire(s, r) /\ <<s, r>> \notin last.fired)
                  => /\ <<s, r>> \in DOMAIN alert_cooldowns
                     /\ alert_cooldowns[<<s, r>>] > now

C33_UnusualBehaviorNeverFires ==
    \A s \in Tenants :
        /\ <<s, "unusual_user_behavior">> \notin DOMAIN alert_cooldowns
        /\ <<s, "unusual_user_behavior">> \notin DOMAIN alerts
        /\ last.op = "alert" => <<s, "unusual_user_behavior">> \notin last.fired

\* an alert cycle has evaluated the rule on a window with traffic and has fired
\* another rule
C33_Witness ==
    /\ last.op = "alert"
    /\ <<"A", "unusual_user_behavior">> \in last.evaluated
    /\ <<"A", "high_bounce_rate">> \in last.fired
    /\ "A" \in DOMAIN redis_thresholds

\* the rule has fired on the tenant's present snapshot: its condition held on
\* those values in an alert cycle after the last update of the window
HeldOnSnapshot(s, r) ==
    /\ <<s, r>> \in DOMAIN alerts
    /\ LastFired(<<s, r>>) >= active_streams[s].last_update
    /\ CheckAlertCondition(active_streams[s], alert_rules(r), LastFired(<<s, r>>))

\* the snapshot of a window that stays in the registry changes only in a
\* dispatch whose batch holds an event of the tenant
SnapshotFrame ==
    \A s \in DOMAIN active_streams :
        (/\ s \in DOMAIN active_streams'
         /\ active_streams'[s].metrics # active_streams[s].metrics)
            => /\ \E i \in 1..Min(Len(processing_queue), realtime_batch_size) :
                     processing_queue[i].site_id = s
               /\ Len(processing_queue') < Len(processing_queue)
               /\ now' = now

\* after an alert cycle every one of the given rules that has fired on the
\* snapshot is inside a cooldown: the cycle fired it again unless an earlier
\* firing still covers it
RefiresOnSnapshot(rules) ==
    last.op = "alert" =>
        \A s \in DOMAIN active_streams : \A r \in rules :
            HeldOnSnapshot(s, r) =>
                /\ <<s, r>> \in DOMAIN alert_cooldowns
                /\ alert_cooldowns[<<s, r>>] > now

\* C34 (as claimed): the snapshot changes only in a dispatch of the tenant's
\* events, and every rule whose condition held on the snapshot fires again
\* after every cooldown
C34_StaleSnapshotRefiresAll ==
    [][SnapshotFrame]_vars /\ []RefiresOnSnapshot(RuleNames)

\* C34 (amended): the snapshot changes only in a dispatch of the tenant's
\* events, and every absolute-threshold rule whose condition held on the
\* snapshot fires again after every cooldown
C34_StaleSnapshotRefires ==
    [][SnapshotFrame]_vars /\ []RefiresOnSnapshot(ThresholdRules)

\* the tenant's traffic has stopped (no buffered event is inside the lookback),
\* the snapshot still shows an error rate of 1, and the alert cycle has fired
\* server_error_spike for the third time
C34_Witness ==
    /\ last.op = "alert"
    /\ "A" \in DOMAIN active_streams
    /\ InLookback("A") = <<>>
    /\ active_streams["A"].metrics.error_rate = <<1, 1>>
    /\ <<"A", "server_error_spike">> \in last.fired
    /\ Len(alerts[<<"A", "server_error_spike">>]) = 3

\* the tenant is still to come in the iteration of the registry
AheadOf(it, s) == \E i \in it.di_pos..Len(dk_entries) : dk_entries[i] = s

\* C35 (as claimed): when the forecast cycle that was suspended in a send comes
\* to its end, every tenant that was still to come in its loop, is active and
\* has a forecast due has had its forecast published in that cycle, whatever
\* sessions began or ended during the suspension
C35_ChurnKeepsCycle ==
    [][(prediction.pc = "send" /\ prediction'.pc = "sleep")
          => \A s \in DOMAIN active_streams :
                (AheadOf(prediction.it, s) /\ GeneratePredictions(active_streams[s]))
                   => Message("predictions", s) \in last'.sent]_vars

\* tenant B is active and a forecast is due for its window
ForecastDue(s) == s \in DOMAIN active_streams /\ GeneratePredictions(active_streams[s])

\* the dispatcher empties the queue again and again
DispatcherGoesOn == (processing_queue # <<>>) ~> (processing_queue = <<>>)

\* C31 (as claimed): with a sink of tenant A that never returns, every queued
\* event is still dispatched, and whenever a forecast is due for tenant B a
\* forecast of B is eventually handed to B's sink
C31_StalledSinkIsolated ==
    /\ DispatcherGoesOn
    /\ ForecastDue("B")
          ~> (last.op = "predict" /\ Message("predictions", "B") \in last.sent)

\* nothing is applied or published for a tenant without window
NothingForInactive(s) ==
    s \notin DOMAIN active_streams =>
        /\ last.op = "dispatch" => s \notin last.updated
        /\ last.op \in {"alert", "metrics", "predict"} =>
              \A m \in last.sent : m.site_id # s

\* the forecast worker begins a send_text: the first one of a send_to_site, or
\* the one to the next connection of the copy send_to_site took of the list
SendStarts == prediction'.pc = "send" /\ prediction' # prediction

\* every send_text begins for a tenant that has a window
SendsOnlyForActive == [][SendStarts => prediction'.site_id \in DOMAIN active_streams']_vars

C37_HandlerErrorKeepsWindow ==
    /\ [][\A w \in EndpointSockets :
             OnHandlerError("A", w)
                => /\ active_streams' = active_streams
                   /\ "A" \in DOMAIN connections' => w \notin Range(connections'["A"])]_vars
    /\ [][("A" \in DOMAIN active_streams /\ "A" \notin DOMAIN active_streams')
             => last'.op \in {"disconnect", "cleanup"}]_vars
    /\ [](last.op = "alert" =>
             \A s \in DOMAIN active_streams : \A r \in RuleNames :
                 <<s, r>> \in last.evaluated)

\* the handler of the tenant's only connection ended with an exception: the
\* connection is gone and the window, with its events, is still registered
C37_Witness ==
    /\ last.op = "handler_error"
    /\ "A" \notin DOMAIN connections
    /\ "A" \in DOMAIN active_streams
    /\ active_streams["A"].events # <<>>

\* C6 (as claimed, with several connections per tenant): every message handed
\* to send_to_site is for a tenant that has a window, and every send_text of a
\* send_to_site in progress begins for a tenant that still has one
C6_NoSendAfterRemoval == []C6_NoPublishAfterRemoval /\ SendsOnlyForActive

\* stats.active_sites is the number of sites with a registered connection
ActiveSitesMatch == stats.active_sites = Cardinality(DOMAIN connections)

\* C38 (as claimed): stats.total_connections is the number of registered
\* connections and stats.active_sites the number of sites that have one, after
\* every operation of the WebSocketManager
C38_StatsMatchRegistry ==
    /\ stats.total_connections = ConnectionCount(connections)
    /\ ActiveSitesMatch

WindowsUntouched ==
    \A s \in DOMAIN active_streams :
        s \in DOMAIN active_streams'
            => /\ active_streams'[s].events = active_streams[s].events
               /\ active_streams'[s].metrics = active_streams[s].metrics

\* C40: cleanup completes with an empty registry; once it has completed,
\* is_running is false and the four worker tasks are done, no step updates a
\* window, runs a worker cycle or takes an event from the intake queue
C40_AfterCleanup ==
    /\ [][(cleanup_pc # "done" /\ cleanup_pc' = "done") => active_streams' = EmptyDict]_vars
    /\ [](cleanup_pc = "done" =>
             /\ ~is_running
             /\ \A w \in Workers : worker_tasks[w] = "done"
             /\ prediction.pc = "sleep")
    /\ [][cleanup_pc = "done" =>
             /\ WindowsUntouched
             /\ last'.op \notin {"dispatch", "alert", "metrics", "predict"}
             /\ \A i \in DOMAIN processing_queue : processing_queue'[i] = processing_queue[i]]_vars

\* after cleanup a client has started a session and submitted an event: the
\* event waits in the queue and the new window is empty
C40_Witness ==
    /\ cleanup_pc = "done"
    /\ processing_queue # <<>>
    /\ "A" \in DOMAIN active_streams
    /\ active_streams["A"].events = <<>>
    /\ last.op = "ingest"

====
